---- MODULE Spec2Model ----
(***************************************************************************)
(* Model of objection/commands/ios/heap.py: the five command handlers      *)
(* instances, ivars, methods, execute and evaluate.                        *)
(*                                                                         *)
(* Python strings are sequences of one-character strings, so that          *)
(* `':' in x`, str.split, str.strip, ''.join, repr and str.format are      *)
(* computed rather than assumed.  Python values of varying type (the       *)
(* remote agent's JSON) are tagged records: StrV, IntV, DictV.             *)
(* What a handler does is recorded as the ordered list of its effects      *)
(* (`events`): text written with click.secho, the prompt, remote calls.    *)
(***************************************************************************)
EXTENDS Integers, Sequences, FiniteSets, TLC

VARIABLES
    args,       \* the caller's argument list object (handlers may mutate it)
    handler,    \* the handler invoked last on this list, "none" before any
    argsIn,     \* the contents of args when that handler was entered
    env,        \* the remote response / operator input that invocation met
    events,     \* the effects of that invocation, in order
    outcome     \* how it ended: "returned" or the exception that escaped

vars == <<args, handler, argsIn, env, events, outcome>>

----------------------------------------------------------------------------
(* Bounds of the model *)

MaxArgs == 3
MaxInstances == 2
MaxIvars == 2
MaxMethods == 2

----------------------------------------------------------------------------
(* Python string and list primitives *)

RECURSIVE Join(_)
\* ''.join(list)
Join(list) ==
    IF list = <<>> THEN <<>> ELSE Head(list) \o Join(Tail(list))

\* `c in s` for a one-character c, and `tok in list`
Contains(s, c) == \E i \in 1..Len(s) : s[i] = c

\* list.remove(tok): drops the first occurrence only
Remove(list, tok) ==
    LET i == CHOOSE j \in 1..Len(list) :
                 list[j] = tok /\ \A m \in 1..(j - 1) : list[m] # tok
    IN  SubSeq(list, 1, i - 1) \o SubSeq(list, i + 1, Len(list))

RECURSIVE Split(_, _)
\* s.split(sep) for a one-character sep: cuts at every occurrence
Split(s, sep) ==
    IF ~Contains(s, sep) THEN <<s>>
    ELSE LET i == CHOOSE j \in 1..Len(s) :
                      s[j] = sep /\ \A m \in 1..(j - 1) : s[m] # sep
         IN  <<SubSeq(s, 1, i - 1)>> \o Split(SubSeq(s, i + 1, Len(s)), sep)

Whitespace == {" ", "\n", "\t"}

RECURSIVE LStrip(_)
LStrip(s) ==
    IF s # <<>> /\ Head(s) \in Whitespace THEN LStrip(Tail(s)) ELSE s

RECURSIVE RStrip(_)
RStrip(s) ==
    IF s # <<>> /\ s[Len(s)] \in Whitespace
    THEN RStrip(SubSeq(s, 1, Len(s) - 1)) ELSE s

\* s.strip()
Strip(s) == RStrip(LStrip(s))

RECURSIVE Escape(_, _)
Escape(s, quote) ==
    IF s = <<>> THEN <<>>
    ELSE LET c == Head(s)
             e == IF c = quote \/ c = "\\" THEN <<"\\", c>>
                  ELSE IF c = "\n" THEN <<"\\", "n">>
                  ELSE IF c = "\t" THEN <<"\\", "t">>
                  ELSE <<c>>
         IN  e \o Escape(Tail(s), quote)

\* repr(s) of a str: quoted, the quote and the backslash escaped
Repr(s) ==
    LET quote == IF Contains(s, "'") /\ ~Contains(s, "\"") THEN "\"" ELSE "'"
    IN  <<quote>> \o Escape(s, quote) \o <<quote>>

----------------------------------------------------------------------------
(* Tagged Python values *)

StrV(s) == [t |-> "str", s |-> s]
IntV(i) == [t |-> "int", i |-> i]
DictV(d) == [t |-> "dict", d |-> d]

RECURSIVE Digits(_)
Digits(n) ==
    LET d == <<"0", "1", "2", "3", "4", "5", "6", "7", "8", "9">>
    IN  IF n < 10 THEN <<d[n + 1]>> ELSE Digits(n \div 10) \o <<d[(n % 10) + 1]>>

\* str(v) as an f-string placeholder renders it (strings and naturals)
ToStr(v) == IF v.t = "str" THEN v.s ELSE Digits(v.i)

----------------------------------------------------------------------------
(* Effects a handler can have, in the order it has them *)

Usage(cmd) == [k |-> "usage", cmd |-> cmd]
Warning == [k |-> "warning", msg |-> "only methods without arguments"]
Secho(msg) == [k |-> "secho", msg |-> msg]
SechoText(msg, text) == [k |-> "secho_text", msg |-> msg, text |-> text]
Prompt == [k |-> "prompt", multiline |-> TRUE]
Table(headers, rows) == [k |-> "table", headers |-> headers, rows |-> rows]
PPrint(value) == [k |-> "pprint", value |-> value]

\* api.ios_heap_print_live_instances(target_class)
CallInstances(c) == [k |-> "remote", op |-> "ios_heap_print_live_instances",
                     clazz |-> c]
\* api.ios_heap_print_ivars(target_pointer, to_utf8)
CallIvars(p, u) == [k |-> "remote", op |-> "ios_heap_print_ivars",
                    pointer |-> p, to_utf8 |-> u]
\* api.ios_heap_print_methods(target_pointer)
CallMethods(p) == [k |-> "remote", op |-> "ios_heap_print_methods",
                   pointer |-> p]
\* api.ios_heap_exec_method(target_pointer, method, return_as_string)
CallExec(p, m, r) == [k |-> "remote", op |-> "ios_heap_exec_method",
                      pointer |-> p, method |-> m, as_string |-> r]
\* api.ios_heap_evaluate_js(target_pointer, js)
CallEvaluate(p, js) == [k |-> "remote", op |-> "ios_heap_evaluate_js",
                        pointer |-> p, js |-> js]

\* What a handler invocation leaves behind
Done(a, ev) == [args |-> a, events |-> ev, outcome |-> "returned"]
Raised(a, ev, exc) == [args |-> a, events |-> ev, outcome |-> exc]

----------------------------------------------------------------------------
(* Flag literals and argument predicates *)

FlagWithoutArguments ==
    <<"-", "-", "w", "i", "t", "h", "o", "u", "t", "-",
      "a", "r", "g", "u", "m", "e", "n", "t", "s">>
FlagToUtf8 == <<"-", "-", "t", "o", "-", "u", "t", "f", "8">>
FlagReturnString ==
    <<"-", "-", "r", "e", "t", "u", "r", "n", "-", "s", "t", "r", "i", "n", "g">>
FlagInline == <<"-", "-", "i", "n", "l", "i", "n", "e">>

\* variant: the flag is looked for after the pointer only
_should_ignore_methods_with_arguments_AfterPointer(a) ==
    Len(a) > 1 /\ Contains(Tail(a), FlagWithoutArguments)

_should_ignore_methods_with_arguments(a) ==
    Len(a) > 0 /\ Contains(a, FlagWithoutArguments)

_should_print_as_utf8(a) == Len(a) > 0 /\ Contains(a, FlagToUtf8)

_should_return_as_string(a) == Len(a) > 0 /\ Contains(a, FlagReturnString)

_should_interpret_inline_js(a) == Len(a) > 0 /\ Contains(a, FlagInline)

----------------------------------------------------------------------------
(* The handlers.  a is the argument list; e is what the invocation meets: *)
(* e.fault (the remote call raises) and the remote result or the          *)
(* operator's input.                                                      *)

InstancesHeaders == <<"Handle", "Kind", "Class", "Super", "iVars", "Methods">>

\* variant: a single result is treated like none (<= 1 for <= 0)
instances_OffByOne(a, e) ==
    IF Len(a) < 1 THEN Done(a, <<Usage("instances")>>)
    ELSE
    LET target_class == a[1]
        call == CallInstances(target_class)
        instance_results == e.instances
    IN  IF e.fault THEN Raised(a, <<call>>, "RemoteFault")
        ELSE IF Len(instance_results) <= 1 THEN Done(a, <<call>>)
        ELSE Done(a, <<call,
                 Table(InstancesHeaders,
                       [i \in 1..Len(instance_results) |->
                           LET entry == instance_results[i]
                           IN  <<entry.handle, entry.kind, entry.className,
                                 entry.superClass, Len(entry.ivars),
                                 Len(entry.methods)>>])>>)

instances(a, e) ==
    IF Len(a) < 1 THEN Done(a, <<Usage("instances")>>)
    ELSE
    LET target_class == a[1]
        call == CallInstances(target_class)
        instance_results == e.instances
    IN  IF e.fault THEN Raised(a, <<call>>, "RemoteFault")
        ELSE IF Len(instance_results) <= 0 THEN Done(a, <<call>>)
        ELSE Done(a, <<call,
                 Table(InstancesHeaders,
                       [i \in 1..Len(instance_results) |->
                           LET entry == instance_results[i]
                           IN  <<entry.handle, entry.kind, entry.className,
                                 entry.superClass, Len(entry.ivars),
                                 Len(entry.methods)>>])>>)

IsReference(value) ==
    value.t = "dict" /\ "className" \in DOMAIN value.d
                     /\ "pointer" \in DOMAIN value.d

\* variant: only a raw value is quoted, an embedded one is shown as it is
format_class_and_value_RawOnly(value) ==
    LET class_and_pointer ==
            IF IsReference(value)
            THEN <<"<">> \o ToStr(value.d.className) \o <<":">>
                         \o ToStr(value.d.pointer) \o <<">">>
            ELSE <<>>
        raw_value ==
            IF IsReference(value)
            THEN (IF "value" \in DOMAIN value.d THEN value.d.value
                                                ELSE StrV(<<>>))
            ELSE value
        formatted_value ==
            IF raw_value.t = "str" /\ ~IsReference(value)
            THEN StrV(Repr(raw_value.s)) ELSE raw_value
    IN  <<formatted_value, class_and_pointer>>

format_class_and_value(value) ==
    LET class_and_pointer ==
            IF IsReference(value)
            THEN <<"<">> \o ToStr(value.d.className) \o <<":">>
                         \o ToStr(value.d.pointer) \o <<">">>
            ELSE <<>>
        raw_value ==
            IF IsReference(value)
            THEN (IF "value" \in DOMAIN value.d THEN value.d.value
                                                ELSE StrV(<<>>))
            ELSE value
        formatted_value ==
            IF raw_value.t = "str" THEN StrV(Repr(raw_value.s)) ELSE raw_value
    IN  <<formatted_value, class_and_pointer>>

IvarsHeaders == <<"iVar", "Value", "<className:pointer>">>

ivars(a, e) ==
    IF Len(a) < 1 THEN Done(a, <<Usage("ivars")>>)
    ELSE
    LET target_pointer == a[1]
        call == CallIvars(target_pointer, _should_print_as_utf8(a))
        ivar_results == e.ivars
        items == ivar_results[2]
        table_data == [i \in 1..Len(items) |->
                          LET f == format_class_and_value(items[i][2])
                          IN  <<items[i][1], f[1], f[2]>>]
    IN  IF e.fault THEN Raised(a, <<call>>, "RemoteFault")
        ELSE Done(a, <<call, Table(IvarsHeaders, table_data)>>)

\* filter(lambda x: ':' not in x, sigs)
WithoutColon(sigs) == SelectSeq(sigs, LAMBDA x : ~Contains(x, ":"))

\* "{type} [{clazz} {method}]".format(...)
FullForm(type, clazz, method) ==
    type \o <<" ", "[">> \o clazz \o <<" ">> \o method \o <<"]">>

MethodsHeaders == <<"Method", "Type", "Full">>

methods(a, e) ==
    IF Len(a) < 1 THEN Done(a, <<Usage("methods")>>)
    ELSE
    LET target_pointer == a[1]
        call == CallMethods(target_pointer)
        method_results == e.methods
        sigs == IF _should_ignore_methods_with_arguments(a)
                THEN WithoutColon(method_results[2])
                ELSE method_results[2]
    IN  IF e.fault THEN Raised(a, <<call>>, "RemoteFault")
        \* entry.split(" ")[1] on an entry without a space: the row list is
        \* never built and nothing is printed
        ELSE IF \E i \in 1..Len(sigs) : Len(Split(sigs[i], " ")) < 2
        THEN Raised(a, <<call>>, "IndexError")
        ELSE Done(a, <<call,
                 Table(MethodsHeaders,
                       [i \in 1..Len(sigs) |->
                           LET entry == sigs[i]
                               tok == Split(entry, " ")
                           IN  <<entry, tok[1],
                                 FullForm(tok[1], method_results[1], tok[2])>>])>>)

\* variant: the colon is looked for in the pointer, not the selector
execute_ColonOnPointer(a, e) ==
    IF Len(a) < 1 THEN Done(a, <<Usage("execute")>>)
    ELSE IF Len(a) < 2 THEN Raised(a, <<>>, "IndexError")
    ELSE
    LET target_pointer == a[1]
        method == a[2]
        call == CallExec(target_pointer, method, _should_return_as_string(a))
    IN  IF Contains(target_pointer, ":") THEN Done(a, <<Warning>>)
        ELSE IF e.fault THEN Raised(a, <<call>>, "RemoteFault")
        ELSE Done(a, <<call, PPrint(e.exec)>>)

\* variant: the usage branch lacks its return and runs on into args[0]
execute_NoReturn(a, e) ==
    IF Len(a) < 1 THEN Raised(a, <<Usage("execute")>>, "IndexError")
    ELSE IF Len(a) < 2 THEN Raised(a, <<>>, "IndexError")
    ELSE
    LET target_pointer == a[1]
        method == a[2]
        call == CallExec(target_pointer, method, _should_return_as_string(a))
    IN  IF Contains(method, ":") THEN Done(a, <<Warning>>)
        ELSE IF e.fault THEN Raised(a, <<call>>, "RemoteFault")
        ELSE Done(a, <<call, PPrint(e.exec)>>)

\* variant: the usage guard asks for both positionals (len(args) < 2)
execute_GuardBoth(a, e) ==
    IF Len(a) < 2 THEN Done(a, <<Usage("execute")>>)
    ELSE
    LET target_pointer == a[1]
        method == a[2]
        call == CallExec(target_pointer, method, _should_return_as_string(a))
    IN  IF Contains(method, ":") THEN Done(a, <<Warning>>)
        ELSE IF e.fault THEN Raised(a, <<call>>, "RemoteFault")
        ELSE Done(a, <<call, PPrint(e.exec)>>)

execute(a, e) ==
    IF Len(a) < 1 THEN Done(a, <<Usage("execute")>>)
    ELSE IF Len(a) < 2 THEN Raised(a, <<>>, "IndexError")
    ELSE
    LET target_pointer == a[1]
        method == a[2]
        call == CallExec(target_pointer, method, _should_return_as_string(a))
    IN  IF Contains(method, ":") THEN Done(a, <<Warning>>)
        ELSE IF e.fault THEN Raised(a, <<call>>, "RemoteFault")
        ELSE Done(a, <<call, PPrint(e.exec)>>)

\* variant: a cancelled prompt is swallowed and an empty script evaluated
evaluate_CancelSwallowed(a, e) ==
    IF Len(a) < 1 THEN Done(a, <<Usage("evaluate")>>)
    ELSE
    LET target_pointer == a[1]
    IN  IF _should_interpret_inline_js(a)
        THEN LET a2 == Remove(a, FlagInline)
                 js == Join(SubSeq(a2, 2, Len(a2)))
                 ev == <<Secho("Reading inline JavaScript for evaluation..."),
                         SechoText("js", js),
                         CallEvaluate(target_pointer, js)>>
             IN  IF e.fault THEN Raised(a2, ev, "RemoteFault")
                 ELSE Done(a2, ev)
        ELSE LET hint == SechoText("The pointer will be available as ptr",
                                   target_pointer)
                 js == IF e.input.accept THEN Strip(e.input.text) ELSE <<>>
                 ev == <<hint, Prompt,
                         Secho("JavaScript capture complete. Evaluating..."),
                         CallEvaluate(target_pointer, js)>>
             IN  IF e.fault THEN Raised(a, ev, "RemoteFault")
                 ELSE Done(a, ev)

evaluate(a, e) ==
    IF Len(a) < 1 THEN Done(a, <<Usage("evaluate")>>)
    ELSE
    LET target_pointer == a[1]
    IN  IF _should_interpret_inline_js(a)
        THEN LET a2 == Remove(a, FlagInline)
                 js == Join(SubSeq(a2, 2, Len(a2)))
                 ev == <<Secho("Reading inline JavaScript for evaluation..."),
                         SechoText("js", js),
                         CallEvaluate(target_pointer, js)>>
             IN  IF e.fault THEN Raised(a2, ev, "RemoteFault")
                 ELSE Done(a2, ev)
        ELSE LET hint == SechoText("The pointer will be available as ptr",
                                   target_pointer)
             IN  IF ~e.input.accept
                 THEN Raised(a, <<hint, Prompt>>, "KeyboardInterrupt")
                 ELSE LET js == Strip(e.input.text)
                          ev == <<hint, Prompt,
                                  Secho("JavaScript capture complete. Evaluating..."),
                                  CallEvaluate(target_pointer, js)>>
                      IN  IF e.fault THEN Raised(a, ev, "RemoteFault")
                          ELSE Done(a, ev)

----------------------------------------------------------------------------
(* Inputs: argument lists, remote results, operator input *)

Ptr == <<"0", "x", "1">>
TokA == <<"a">>
TokB == <<"b", ":">>

Tokens == {Ptr, TokA, TokB,
           FlagWithoutArguments, FlagToUtf8, FlagReturnString, FlagInline}

SeqsUpTo(S, n) == UNION {[1..m -> S] : m \in 0..n}

ArgLists == SeqsUpTo(Tokens, MaxArgs)

Foo == <<"F", "o", "o">>
Bar == <<"B", "a", "r">>
NSObject == <<"N", "S", "O", "b", "j", "e", "c", "t">>

\* a {className, pointer, value} reference descriptor, and one without value
Ref(c, p, v) == DictV([className |-> StrV(c), pointer |-> StrV(p), value |-> v])
RefNoValue(c, p) == DictV([className |-> StrV(c), pointer |-> StrV(p)])

IvarValues ==
    { IntV(1),
      StrV(<<"x">>),
      StrV(<<"i", "t", "'", "s">>),
      Ref(Bar, Ptr, StrV(<<"x">>)),
      Ref(Bar, Ptr, IntV(2)),
      RefNoValue(Bar, Ptr),
      DictV([className |-> StrV(Bar)]) }

IvarNames == {<<"a">>, <<"b">>}

\* ordered mappings: sequences of <<name, value>> with distinct names
IvarMappings ==
    { m \in SeqsUpTo(IvarNames \X IvarValues, MaxIvars) :
        \A i, j \in 1..Len(m) : m[i][1] = m[j][1] => i = j }

SigBar == <<"-", " ", "b", "a", "r">>
SigBazQux == <<"-", " ", "b", "a", "z", ":", "q", "u", "x", ":">>
SigClassNew == <<"+", " ", "n", "e", "w">>
SigNoSpace == <<"b", "a", "r">>
SigNoSpaceColon == <<"b", "a", "r", ":">>
SigEmpty == <<>>
SigThree == <<"-", " ", "b", "a", "r", " ", "x">>

Signatures == {SigBar, SigBazQux, SigClassNew,
               SigNoSpace, SigNoSpaceColon, SigEmpty, SigThree}

Summary1 == [className |-> Foo, handle |-> Ptr,
             ivars |-> <<<<TokA, IntV(1)>>>>, kind |-> <<"i">>,
             methods |-> <<SigBar, SigBazQux>>, superClass |-> NSObject]
Summary2 == [className |-> Bar, handle |-> <<"0", "x", "2">>,
             ivars |-> <<>>, kind |-> <<"c">>,
             methods |-> <<SigClassNew>>, superClass |-> Foo]

InstancesEnv ==
    {[fault |-> TRUE, instances |-> <<>>]} \cup
    {[fault |-> FALSE, instances |-> r] :
        r \in SeqsUpTo({Summary1, Summary2}, MaxInstances)}

IvarsEnv ==
    {[fault |-> TRUE, ivars |-> <<Foo, <<>>>>]} \cup
    {[fault |-> FALSE, ivars |-> <<Foo, m>>] : m \in IvarMappings}

MethodsEnv ==
    {[fault |-> TRUE, methods |-> <<Foo, <<>>>>]} \cup
    {[fault |-> FALSE, methods |-> <<Foo, s>>] :
        s \in SeqsUpTo(Signatures, MaxMethods)}

ExecuteEnv ==
    {[fault |-> TRUE, exec |-> IntV(0)]} \cup
    {[fault |-> FALSE, exec |-> v] : v \in {IntV(1), StrV(<<"x">>)}}

Scripts == {<<>>, <<" ", "p", "t", "r", "\n">>}

EvaluateEnv ==
    {[fault |-> f, input |-> [accept |-> TRUE, text |-> t]] :
        f \in BOOLEAN, t \in Scripts} \cup
    {[fault |-> FALSE, input |-> [accept |-> FALSE, text |-> <<>>]]}

----------------------------------------------------------------------------
(* The state machine: a caller builds an argument list and hands it to a  *)
(* handler; it may then hand the same list object to the same handler     *)
(* again, the agent and the operator answering as before.                 *)

Init ==
    /\ args \in ArgLists
    /\ handler = "none"
    /\ argsIn = <<>>
    /\ env = [fault |-> FALSE]
    /\ events = <<>>
    /\ outcome = "none"

Invoke(h, e, r) ==
    /\ handler' = h
    /\ argsIn' = args
    /\ env' = e
    /\ args' = r.args
    /\ events' = r.events
    /\ outcome' = r.outcome

Instances ==
    /\ handler = "none"
    /\ \E e \in InstancesEnv : Invoke("instances", e, instances(args, e))

Ivars ==
    /\ handler = "none"
    /\ \E e \in IvarsEnv : Invoke("ivars", e, ivars(args, e))

Methods ==
    /\ handler = "none"
    /\ \E e \in MethodsEnv : Invoke("methods", e, methods(args, e))

Execute ==
    /\ handler = "none"
    /\ \E e \in ExecuteEnv : Invoke("execute", e, execute(args, e))

Evaluate ==
    /\ handler = "none"
    /\ \E e \in EvaluateEnv : Invoke("evaluate", e, evaluate(args, e))

Handle(h, a, e) ==
    CASE h = "instances" -> instances(a, e)
      [] h = "ivars" -> ivars(a, e)
      [] h = "methods" -> methods(a, e)
      [] h = "execute" -> execute(a, e)
      [] h = "evaluate" -> evaluate(a, e)

\* the same handler again, on the same list object, in the same environment
Again ==
    /\ handler # "none"
    /\ Invoke(handler, env, Handle(handler, args, env))

Next == Instances \/ Ivars \/ Methods \/ Execute \/ Evaluate \/ Again

Spec == Init /\ [][Next]_vars

----------------------------------------------------------------------------
(* Vocabulary for the properties *)

Invoked(h) == handler = h

RemoteCalls == SelectSeq(events, LAMBDA x : x.k = "remote")

Has(kind) == \E i \in 1..Len(events) : events[i].k = kind

\* the rows handed to tabulate, <<>> when no table was printed
Rows == IF Has("table")
        THEN (CHOOSE x \in {events[i] : i \in 1..Len(events)} : x.k = "table").rows
        ELSE <<>>

\* required positionals present and, for execute, a colon-free selector
Valid ==
    /\ Len(argsIn) >= 1
    /\ Invoked("execute") => Len(argsIn) >= 2 /\ ~Contains(argsIn[2], ":")

\* the interactive text entry was opened and the operator cancelled it
Cancelled ==
    Invoked("evaluate") /\ Has("prompt") /\ ~env.input.accept

----------------------------------------------------------------------------
\* C1: execute with a selector (args[1]) containing ':' never calls the
\* remote invokeMethod, emits exactly the unsupported-operation warning and
\* returns normally, with or without --return-string.
C1_ColonSelectorRefused ==
    (Invoked("execute") /\ Len(argsIn) >= 2 /\ Contains(argsIn[2], ":"))
        => /\ RemoteCalls = <<>>
           /\ events = <<Warning>>
           /\ outcome = "returned"

C1_Witness ==
    /\ Invoked("execute")
    /\ Len(argsIn) >= 2
    /\ Contains(argsIn[2], ":")
    /\ Contains(argsIn, FlagReturnString)
    /\ events = <<Warning>>

\* C2: called with an empty argument list, every handler emits its usage
\* message and nothing else, returns normally and makes no remote call.
C2_EmptyArgsUsage ==
    (handler # "none" /\ argsIn = <<>>)
        => /\ events = <<Usage(handler)>>
           /\ RemoteCalls = <<>>
           /\ outcome = "returned"

C2_Witness ==
    /\ Invoked("execute")
    /\ argsIn = <<>>
    /\ events = <<Usage("execute")>>
    /\ outcome = "returned"

\* the arguments after args[0], the --inline flag left out
InlineTokens(a) == SelectSeq(SubSeq(a, 2, Len(a)), LAMBDA x : x # FlagInline)

\* C3: with --inline anywhere in args, any number of times, evaluate never
\* opens the prompt and calls evaluateScript exactly once with pointer
\* args[0] and script the concatenation of the other arguments that are not
\* the flag.
C3_InlineScript ==
    (Invoked("evaluate") /\ Contains(argsIn, FlagInline))
        => /\ ~Has("prompt")
           /\ RemoteCalls = <<CallEvaluate(argsIn[1], Join(InlineTokens(argsIn)))>>

\* what the spec says the value column shows: the embedded value of a
\* reference (empty if absent), the raw value otherwise
ShownValue(v) ==
    IF IsReference(v)
    THEN (IF "value" \in DOMAIN v.d THEN v.d.value ELSE StrV(<<>>))
    ELSE v

Annotation(v) ==
    IF IsReference(v)
    THEN <<"<">> \o v.d.className.s \o <<":">> \o v.d.pointer.s \o <<">">>
    ELSE <<>>

\* a textual value as the table shows it: quoted and escaped
Quoted(v) == IF v.t = "str" THEN StrV(Repr(v.s)) ELSE v

IvarsRendered == Invoked("ivars") /\ Len(argsIn) >= 1 /\ ~env.fault

FooExample ==
    <<Foo, << <<TokA, IntV(1)>>, <<<<"b">>, Ref(Bar, Ptr, StrV(<<"x">>))>> >> >>

\* C4 as stated: one row per ivar, in mapping order, (name, value,
\* annotation), the value column being the embedded or raw value itself.
C4_RowsUnquoted ==
    IvarsRendered
        => LET items == env.ivars[2]
           IN  /\ Len(Rows) = Len(items)
               /\ \A i \in 1..Len(items) :
                     Rows[i] = <<items[i][1], ShownValue(items[i][2]),
                                 Annotation(items[i][2])>>

\* C4 as amended: one row per ivar, in mapping order, (name, value,
\* annotation), a textual value (embedded or raw, the empty string when a
\* reference has none) being shown as its repr; the Foo example renders
\* ("a", 1, "") and ("b", "'x'", "<Bar:0x1>").
C4_RowsQuoted ==
    IvarsRendered
        => LET items == env.ivars[2]
           IN  /\ Len(Rows) = Len(items)
               /\ \A i \in 1..Len(items) :
                     Rows[i] = <<items[i][1], Quoted(ShownValue(items[i][2])),
                                 Annotation(items[i][2])>>
               /\ env.ivars = FooExample =>
                     Rows = << <<TokA, IntV(1), <<>> >>,
                               <<<<"b">>, StrV(<<"'", "x", "'">>),
                                 <<"<", "B", "a", "r", ":", "0", "x", "1", ">">> >> >>

C4_Witness ==
    /\ IvarsRendered
    /\ env.ivars = FooExample
    /\ Len(Rows) = 2
    /\ Rows[2][2] = StrV(<<"'", "x", "'">>)

MethodsRendered == Invoked("methods") /\ Len(argsIn) >= 1 /\ ~env.fault

\* exactly two space-delimited tokens: exactly one space
TwoToken(sig) == Cardinality({j \in 1..Len(sig) : sig[j] = " "}) = 1

\* the signatures the table is to show
Unfiltered ==
    IF Contains(argsIn, FlagWithoutArguments)
    THEN SelectSeq(env.methods[2], LAMBDA x : ~Contains(x, ":"))
    ELSE env.methods[2]

\* C5: for a result of two-token signatures, methods shows exactly the
\* colon-free signatures (in order) when --without-arguments is in args and
\* all of them otherwise, each row's Full column being
\* "<type> [<className> <selectorBody>]"; ("Foo", ["- bar", "- baz:qux:"])
\* with the flag yields only "- bar" with "- [Foo bar]".
C5_MethodsRows ==
    (MethodsRendered /\ \A i \in 1..Len(env.methods[2]) : TwoToken(env.methods[2][i]))
        => /\ outcome = "returned"
           /\ Has("table")
           /\ Len(Rows) = Len(Unfiltered)
           /\ \A i \in 1..Len(Unfiltered) :
                 LET sig == Unfiltered[i]
                     j == CHOOSE n \in 1..Len(sig) : sig[n] = " "
                     type == SubSeq(sig, 1, j - 1)
                     body == SubSeq(sig, j + 1, Len(sig))
                 IN  Rows[i] = <<sig, type,
                                 type \o <<" ", "[">> \o env.methods[1]
                                      \o <<" ">> \o body \o <<"]">> >>
           /\ (env.methods = <<Foo, <<SigBar, SigBazQux>>>>
                 /\ Contains(argsIn, FlagWithoutArguments))
                 => Rows = << <<SigBar, <<"-">>,
                                <<"-", " ", "[", "F", "o", "o", " ",
                                  "b", "a", "r", "]">> >> >>

C5_Witness ==
    /\ MethodsRendered
    /\ env.methods = <<Foo, <<SigBar, SigBazQux>>>>
    /\ argsIn[1] = FlagWithoutArguments
    /\ Len(Rows) = 1
    /\ Rows[1][1] = SigBar

\* C6: for non-empty args, instances calls listLiveInstances(args[0]); an
\* empty result gives no output at all and a normal return, a result of
\* n >= 1 entries a table of n rows in result order, each
\* [handle, kind, className, superClass, #ivars, #methods].
C6_InstancesRows ==
    (Invoked("instances") /\ Len(argsIn) >= 1)
        => /\ RemoteCalls = <<CallInstances(argsIn[1])>>
           /\ ~env.fault =>
                LET res == env.instances
                IN  /\ outcome = "returned"
                    /\ Len(res) = 0 => events = <<CallInstances(argsIn[1])>>
                    /\ Len(res) >= 1 =>
                         /\ Len(events) = 2
                         /\ events[2].k = "table"
                         /\ events[2].headers = InstancesHeaders
                         /\ Len(Rows) = Len(res)
                         /\ \A i \in 1..Len(res) :
                               Rows[i] = <<res[i].handle, res[i].kind,
                                           res[i].className, res[i].superClass,
                                           Len(res[i].ivars), Len(res[i].methods)>>

C6_Witness ==
    /\ Invoked("instances")
    /\ ~env.fault
    /\ env.instances = <<Summary1, Summary2>>
    /\ Len(Rows) = 2
    /\ Rows[1][5] = 1
    /\ Rows[2][6] = 1

\* C7: one invocation makes at most one remote call, exactly one when its
\* arguments pass validation (unless the interactive entry is cancelled),
\* the call comes before the result is formatted and printed, and a
\* cancelled evaluate makes no remote call.
C7_OneRemoteCall ==
    handler # "none"
        => /\ Len(RemoteCalls) <= 1
           /\ (Valid /\ ~Cancelled) => Len(RemoteCalls) = 1
           /\ \A i, j \in 1..Len(events) :
                 (events[i].k = "remote" /\ events[j].k \in {"table", "pprint"})
                     => i < j
           /\ Cancelled => RemoteCalls = <<>>

C7_Witness ==
    /\ Cancelled
    /\ Len(argsIn) >= 1
    /\ outcome = "KeyboardInterrupt"
    /\ RemoteCalls = <<>>

\* C8: whatever the shape of the signatures, methods returns normally and
\* shows one row per unfiltered signature.
C8_MalformedSignatureNoError ==
    MethodsRendered
        => /\ outcome = "returned"
           /\ Has("table")
           /\ Len(Rows) = Len(Unfiltered)

\* C9: execute with exactly one argument ends in an index fault, with no
\* usage message, no warning and no remote call before it.
C9_ExecuteOneArgFaults ==
    (Invoked("execute") /\ Len(argsIn) = 1)
        => /\ outcome = "IndexError"
           /\ events = <<>>

C9_Witness ==
    /\ Invoked("execute")
    /\ argsIn = <<Ptr>>
    /\ outcome = "IndexError"

\* C10: a handler leaves the caller's argument list unchanged, so the same
\* handler invoked again on the same list object, in the same environment,
\* has the same effects and the same outcome.
C10_NoStateRetained ==
    [][/\ args' = args
       /\ (handler # "none" /\ handler' = handler /\ env' = env)
             => (events' = events /\ outcome' = outcome)]_vars

====
